---- MODULE Spec2Model ----
(***************************************************************************)
(* Random chord progression generator (main.py).                           *)
(*                                                                         *)
(* Two specifications are given.                                           *)
(*   Spec    one run of generate_progression: every random.choice is a     *)
(*           nondeterministic choice, each called function and each        *)
(*           print is one step.                                            *)
(*   FnSpec  a single call of one of the pure functions build_scale,       *)
(*           chord_name, degree_to_chord, pick_progression on arguments    *)
(*           drawn from bounded sets.                                      *)
(***************************************************************************)
EXTENDS Integers, Sequences, FiniteSets, TLC

VARIABLES pc, root, mode, scale, roman, degrees, chords, out, fallback,
          fn, arg_root, arg_mode, arg_scale, arg_degree, arg_quality,
          returned, ret

run_vars == <<pc, root, mode, scale, roman, degrees, chords, out, fallback>>
call_vars == <<fn, arg_root, arg_mode, arg_scale, arg_degree, arg_quality,
               returned, ret>>
vars == <<run_vars, call_vars>>

(***************************************************************************)
(* Bounds of the argument sets of FnSpec.                                  *)
(***************************************************************************)
\* degrees tried are (1 - DegreeSpan) .. (7 + DegreeSpan)
DegreeSpan == 3
\* arbitrary 7-element scales are built over the first MaxScaleNotes notes
MaxScaleNotes == 2

(***************************************************************************)
(* Static tables.                                                          *)
(***************************************************************************)
NOTES == <<"C", "C#", "D", "D#", "E", "F", "F#", "G", "G#", "A", "A#", "B">>

\* faulty variant: the seventh degree an octave above the root
MAJOR_OFFSETS_octave == <<0, 2, 4, 5, 7, 9, 12>>

MAJOR_OFFSETS == <<0, 2, 4, 5, 7, 9, 11>>

MINOR_OFFSETS == <<0, 2, 3, 5, 7, 8, 10>>

MAJOR_QUALITIES == <<"maj", "min", "min", "maj", "maj", "min", "dim">>

\* faulty variant: a quality chord_name does not know
MINOR_QUALITIES_aug == <<"min", "dim", "aug", "min", "min", "maj", "maj">>

MINOR_QUALITIES == <<"min", "dim", "maj", "min", "min", "maj", "maj">>

\* faulty variant: a template with a missing degree number
MAJOR_PROGRESSIONS_short ==
    << << <<"I", "V", "vi", "IV">>, <<1, 5, 6, 4>> >>,
       << <<"I", "vi", "IV", "V">>, <<1, 6, 4, 5>> >>,
       << <<"vi", "IV", "I", "V">>, <<6, 4, 1>> >>,
       << <<"I", "IV", "V", "I">>, <<1, 4, 5, 1>> >> >>

\* each template is <<roman_numerals, degree_numbers>>
MAJOR_PROGRESSIONS ==
    << << <<"I", "V", "vi", "IV">>, <<1, 5, 6, 4>> >>,
       << <<"I", "vi", "IV", "V">>, <<1, 6, 4, 5>> >>,
       << <<"vi", "IV", "I", "V">>, <<6, 4, 1, 5>> >>,
       << <<"I", "IV", "V", "I">>, <<1, 4, 5, 1>> >> >>

\* faulty variant: a degree number past the seventh
MINOR_PROGRESSIONS_degree8 ==
    << << <<"i", "VI", "III", "VII">>, <<1, 6, 3, 7>> >>,
       << <<"i", "iv", "v", "i">>, <<1, 4, 5, 8>> >>,
       << <<"i", "VII", "VI", "VII">>, <<1, 7, 6, 7>> >>,
       << <<"i", "VI", "VII", "i">>, <<1, 6, 7, 1>> >> >>

\* faulty variant: the dominant of the minor key labelled as a major chord
MINOR_PROGRESSIONS_major_five ==
    << << <<"i", "VI", "III", "VII">>, <<1, 6, 3, 7>> >>,
       << <<"i", "iv", "V", "i">>, <<1, 4, 5, 1>> >>,
       << <<"i", "VII", "VI", "VII">>, <<1, 7, 6, 7>> >>,
       << <<"i", "VI", "VII", "i">>, <<1, 6, 7, 1>> >> >>

MINOR_PROGRESSIONS ==
    << << <<"i", "VI", "III", "VII">>, <<1, 6, 3, 7>> >>,
       << <<"i", "iv", "v", "i">>, <<1, 4, 5, 1>> >>,
       << <<"i", "VII", "VI", "VII">>, <<1, 7, 6, 7>> >>,
       << <<"i", "VI", "VII", "i">>, <<1, 6, 7, 1>> >> >>

\* the two values random.choice(["major", "minor"]) can return
MODES == <<"major", "minor">>

(***************************************************************************)
(* Python helpers.                                                         *)
(***************************************************************************)
\* the values random.choice(lst) can return
random_choice(lst) == {lst[i] : i \in 1..Len(lst)}

\* faulty variant: a 1-based position
list_index_one_based(lst, x) ==
    CHOOSE i \in 1..Len(lst) :
        /\ lst[i] = x
        /\ \A j \in 1..(i - 1) : lst[j] # x

\* lst.index(x): 0-based position of the first occurrence of x
list_index(lst, x) ==
    CHOOSE i \in 0..(Len(lst) - 1) :
        /\ lst[i + 1] = x
        /\ \A j \in 0..(i - 1) : lst[j + 1] # x

\* ' '.join(words)
RECURSIVE join(_)
join(words) ==
    IF Len(words) = 0 THEN ""
    ELSE IF Len(words) = 1 THEN words[1]
    ELSE words[1] \o " " \o join(Tail(words))

(***************************************************************************)
(* Pure functions.                                                         *)
(***************************************************************************)
\* the offsets build_scale selects for a mode
scale_offsets(m) == IF m = "major" THEN MAJOR_OFFSETS ELSE MINOR_OFFSETS

\* faulty variant: the note index stops at the last note instead of wrapping
RECURSIVE build_scale_loop_clamped(_, _, _)
build_scale_loop_clamped(root_index, offsets, k) ==
    IF k = 0 THEN << >>
    ELSE LET semitone_offset == offsets[k]
             sum == root_index + semitone_offset
             note_index == IF sum > Len(NOTES) - 1 THEN Len(NOTES) - 1 ELSE sum
         IN  Append(build_scale_loop_clamped(root_index, offsets, k - 1),
                    NOTES[note_index + 1])

\* the for loop of build_scale after its first k iterations
RECURSIVE build_scale_loop(_, _, _)
build_scale_loop(root_index, offsets, k) ==
    IF k = 0 THEN << >>
    ELSE LET semitone_offset == offsets[k]
             note_index == (root_index + semitone_offset) % Len(NOTES)
         IN  Append(build_scale_loop(root_index, offsets, k - 1),
                    NOTES[note_index + 1])

build_scale(r, m) ==
    LET root_index == list_index(NOTES, r)
        offsets == scale_offsets(m)
    IN  build_scale_loop(root_index, offsets, Len(offsets))

\* TRUE when chord_name falls through its three tests to the fallback return
chord_name_fallback(quality) ==
    quality # "maj" /\ quality # "min" /\ quality # "dim"

\* faulty variant: the minor suffix is dropped
chord_name_no_minor(root_note, quality) ==
    IF quality = "maj" THEN root_note
    ELSE IF quality = "min" THEN root_note
    ELSE IF quality = "dim" THEN root_note \o "dim"
    ELSE root_note

chord_name(root_note, quality) ==
    IF quality = "maj" THEN root_note
    ELSE IF quality = "min" THEN root_note \o "m"
    ELSE IF quality = "dim" THEN root_note \o "dim"
    ELSE root_note

\* the quality table degree_to_chord selects for a mode
mode_qualities(m) == IF m = "major" THEN MAJOR_QUALITIES ELSE MINOR_QUALITIES

\* faulty variant: the range check admits degree 0, whose index -1 is the
\* last element of a Python list
degree_to_chord_lax(s, degree, m) ==
    IF degree < 0 \/ degree > 7
    THEN [raised |-> "ValueError", value |-> "", quality |-> "",
          fallback |-> FALSE]
    ELSE LET qualities == mode_qualities(m)
             scale_index == degree - 1
         IN  IF scale_index >= Len(s)
             THEN [raised |-> "IndexError", value |-> "", quality |-> "",
                   fallback |-> FALSE]
             ELSE LET root_note == IF scale_index < 0 THEN s[Len(s)]
                                   ELSE s[scale_index + 1]
                      quality == IF scale_index < 0
                                 THEN qualities[Len(qualities)]
                                 ELSE qualities[scale_index + 1]
                  IN  [raised |-> "none",
                       value |-> chord_name(root_note, quality),
                       quality |-> quality,
                       fallback |-> chord_name_fallback(quality)]

\* raised is "none", "ValueError" (the range check) or "IndexError" (a scale
\* shorter than the degree); value, quality and fallback are meaningful only
\* when nothing was raised
degree_to_chord(s, degree, m) ==
    IF degree < 1 \/ degree > 7
    THEN [raised |-> "ValueError", value |-> "", quality |-> "",
          fallback |-> FALSE]
    ELSE LET qualities == mode_qualities(m)
             scale_index == degree - 1
         IN  IF scale_index >= Len(s)
             THEN [raised |-> "IndexError", value |-> "", quality |-> "",
                   fallback |-> FALSE]
             ELSE LET root_note == s[scale_index + 1]
                      quality == qualities[scale_index + 1]
                  IN  [raised |-> "none",
                       value |-> chord_name(root_note, quality),
                       quality |-> quality,
                       fallback |-> chord_name_fallback(quality)]

\* faulty variant: the mode is ignored
pick_progression_any_mode(m) == random_choice(MAJOR_PROGRESSIONS)

\* the templates pick_progression can return for a mode
pick_progression(m) ==
    IF m = "major" THEN random_choice(MAJOR_PROGRESSIONS)
    ELSE random_choice(MINOR_PROGRESSIONS)

\* the k-th line generate_progression prints
output_line(k) ==
    CASE k = 1 -> "Random Chord Progression Generator"
      [] k = 2 -> "Key: " \o root \o " " \o mode
      [] k = 3 -> "Progression: " \o join(roman)
      [] k = 4 -> "Chords: " \o join(chords)
      [] OTHER -> "Tip: Try 4 beats per chord."

(***************************************************************************)
(* One run of generate_progression.                                        *)
(***************************************************************************)
RunIdle ==
    /\ pc = "start"
    /\ root = ""
    /\ mode = ""
    /\ scale = << >>
    /\ roman = << >>
    /\ degrees = << >>
    /\ chords = << >>
    /\ out = << >>
    /\ fallback = FALSE

CallIdle ==
    /\ fn = "none"
    /\ arg_root = ""
    /\ arg_mode = ""
    /\ arg_scale = << >>
    /\ arg_degree = 0
    /\ arg_quality = ""
    /\ returned = FALSE
    /\ ret = << >>

Init == RunIdle /\ CallIdle

pick_key_and_mode ==
    /\ pc = "start"
    /\ \E r \in random_choice(NOTES), m \in random_choice(MODES) :
          /\ root' = r
          /\ mode' = m
    /\ pc' = "build_scale"
    /\ UNCHANGED <<scale, roman, degrees, chords, out, fallback>>
    /\ UNCHANGED call_vars

BuildScale ==
    /\ pc = "build_scale"
    /\ scale' = build_scale(root, mode)
    /\ pc' = "pick_progression"
    /\ UNCHANGED <<root, mode, roman, degrees, chords, out, fallback>>
    /\ UNCHANGED call_vars

PickProgression ==
    /\ pc = "pick_progression"
    /\ \E t \in pick_progression(mode) :
          /\ roman' = t[1]
          /\ degrees' = t[2]
          /\ pc' = IF Len(t[2]) = 0 THEN "print" ELSE "chords"
    /\ UNCHANGED <<root, mode, scale, chords, out, fallback>>
    /\ UNCHANGED call_vars

\* one element of the list comprehension over degrees
RenderChord ==
    /\ pc = "chords"
    /\ LET d == degrees[Len(chords) + 1]
           r == degree_to_chord(scale, d, mode)
       IN  IF r.raised # "none"
           THEN /\ pc' = "raised"
                /\ UNCHANGED <<chords, fallback>>
           ELSE /\ chords' = Append(chords, r.value)
                /\ fallback' = (fallback \/ r.fallback)
                /\ pc' = IF Len(chords) + 1 = Len(degrees) THEN "print"
                         ELSE "chords"
    /\ UNCHANGED <<root, mode, scale, roman, degrees, out>>
    /\ UNCHANGED call_vars

\* one print call
PrintLine ==
    /\ pc = "print"
    /\ out' = Append(out, output_line(Len(out) + 1))
    /\ pc' = IF Len(out) + 1 = 5 THEN "done" ELSE "print"
    /\ UNCHANGED <<root, mode, scale, roman, degrees, chords, fallback>>
    /\ UNCHANGED call_vars

Next ==
    \/ pick_key_and_mode
    \/ BuildScale
    \/ PickProgression
    \/ RenderChord
    \/ PrintLine

Spec == Init /\ [][Next]_vars

(***************************************************************************)
(* One call of a pure function on arguments drawn from bounded sets.       *)
(***************************************************************************)
TestModes == random_choice(MODES)

TestRoots == random_choice(NOTES)

TestDegrees == (1 - DegreeSpan)..(7 + DegreeSpan)

\* the three qualities of the tables and one value outside them
TestQualities == {"maj", "min", "dim", "aug"}

\* every scale build_scale returns, and every 7-element sequence over the
\* first MaxScaleNotes notes
TestScales ==
    {build_scale(r, m) : r \in TestRoots, m \in TestModes}
        \cup [1..7 -> {NOTES[i] : i \in 1..MaxScaleNotes}]

FnInit ==
    /\ RunIdle
    /\ returned = FALSE
    /\ ret = << >>
    /\ \/ /\ fn = "build_scale"
          /\ arg_root \in TestRoots
          /\ arg_mode \in TestModes
          /\ arg_scale = << >>
          /\ arg_degree = 0
          /\ arg_quality = ""
       \/ /\ fn = "chord_name"
          /\ arg_root \in TestRoots
          /\ arg_mode = ""
          /\ arg_scale = << >>
          /\ arg_degree = 0
          /\ arg_quality \in TestQualities
       \/ /\ fn = "degree_to_chord"
          /\ arg_root = ""
          /\ arg_mode \in TestModes
          /\ arg_scale \in TestScales
          /\ arg_degree \in TestDegrees
          /\ arg_quality = ""
       \/ /\ fn = "pick_progression"
          /\ arg_root = ""
          /\ arg_mode \in TestModes
          /\ arg_scale = << >>
          /\ arg_degree = 0
          /\ arg_quality = ""

CallBuildScale ==
    /\ fn = "build_scale"
    /\ ~returned
    /\ ret' = build_scale(arg_root, arg_mode)
    /\ returned' = TRUE
    /\ UNCHANGED <<fn, arg_root, arg_mode, arg_scale, arg_degree, arg_quality>>
    /\ UNCHANGED run_vars

CallChordName ==
    /\ fn = "chord_name"
    /\ ~returned
    /\ ret' = [value |-> chord_name(arg_root, arg_quality),
               fallback |-> chord_name_fallback(arg_quality)]
    /\ returned' = TRUE
    /\ UNCHANGED <<fn, arg_root, arg_mode, arg_scale, arg_degree, arg_quality>>
    /\ UNCHANGED run_vars

CallDegreeToChord ==
    /\ fn = "degree_to_chord"
    /\ ~returned
    /\ ret' = degree_to_chord(arg_scale, arg_degree, arg_mode)
    /\ returned' = TRUE
    /\ UNCHANGED <<fn, arg_root, arg_mode, arg_scale, arg_degree, arg_quality>>
    /\ UNCHANGED run_vars

CallPickProgression ==
    /\ fn = "pick_progression"
    /\ ~returned
    /\ ret' \in pick_progression(arg_mode)
    /\ returned' = TRUE
    /\ UNCHANGED <<fn, arg_root, arg_mode, arg_scale, arg_degree, arg_quality>>
    /\ UNCHANGED run_vars

FnNext ==
    \/ CallBuildScale
    \/ CallChordName
    \/ CallDegreeToChord
    \/ CallPickProgression

FnSpec == FnInit /\ [][FnNext]_vars

\* a sequential program always takes its next step
LiveSpec == Spec /\ WF_vars(Next)

(***************************************************************************)
(* Properties.                                                             *)
(***************************************************************************)
NoteSet == {"C", "C#", "D", "D#", "E", "F", "F#", "G", "G#", "A", "A#", "B"}

\* position of a pitch class in the fixed cyclic sequence
PitchIndex(r) == CHOOSE i \in 0..11 : NOTES[i + 1] = r

ExpectedOffsets(m) ==
    IF m = "major" THEN <<0, 2, 4, 5, 7, 9, 11>> ELSE <<0, 2, 3, 5, 7, 8, 10>>

ExpectedQualities(m) ==
    IF m = "major" THEN <<"maj", "min", "min", "maj", "maj", "min", "dim">>
    ELSE <<"min", "dim", "maj", "min", "min", "maj", "maj">>

ExpectedSuffix(q) ==
    CASE q = "maj" -> ""
      [] q = "min" -> "m"
      [] q = "dim" -> "dim"

BuildScaleReturned == fn = "build_scale" /\ returned

DegreeToChordReturned == fn = "degree_to_chord" /\ returned

PickProgressionReturned == fn = "pick_progression" /\ returned

\* C1: element i of build_scale(r, m) is the pitch class at position
\* (index(r) + OFFSETS_m[i]) mod 12 of the 12-note sequence, for every root,
\* both modes and i in 0..6; A minor is A B C D E F G.
C1_ScaleLaw ==
    BuildScaleReturned =>
        /\ \A i \in 0..6 :
              /\ i + 1 \in DOMAIN ret
              /\ ret[i + 1] =
                   NOTES[((PitchIndex(arg_root)
                             + ExpectedOffsets(arg_mode)[i + 1]) % 12) + 1]
        /\ (arg_root = "A" /\ arg_mode = "minor"
              => ret = <<"A", "B", "C", "D", "E", "F", "G">>)

\* a scale whose upper degrees wrap past B back to the start of the sequence
C1_Witness ==
    /\ BuildScaleReturned
    /\ arg_root = "A"
    /\ arg_mode = "minor"
    /\ ret[3] = "C"

\* C2: build_scale returns exactly 7 pitch classes, each one of the 12
\* symbols, the first equal to the root.
C2_ScaleShape ==
    BuildScaleReturned =>
        /\ Len(ret) = 7
        /\ \A i \in 1..Len(ret) : ret[i] \in NoteSet
        /\ ret[1] = arg_root

C2_Witness ==
    /\ BuildScaleReturned
    /\ arg_root = "B"
    /\ arg_mode = "major"
    /\ Len(ret) = 7

\* C3: on a 7-element scale degree_to_chord raises nothing for a degree in
\* 1..7 and raises the out-of-range error, returning no chord name, for every
\* degree below 1 or above 7 (0 and 8 included).
C3_DegreeValidation ==
    (DegreeToChordReturned /\ Len(arg_scale) = 7) =>
        /\ (arg_degree \in 1..7 => ret.raised = "none")
        /\ (arg_degree < 1 \/ arg_degree > 7
              => ret.raised = "ValueError" /\ ret.value = "")

C3_Witness ==
    /\ DegreeToChordReturned
    /\ Len(arg_scale) = 7
    /\ arg_degree = 0
    /\ ret.raised = "ValueError"

\* C4: for a degree d in 1..7 degree_to_chord returns scale[d-1] followed by
\* the suffix of the mode's quality for d ("" for maj, "m" for min, "dim" for
\* dim); C major gives C, Dm, G, Am for degrees 1, 2, 5, 6 and A minor gives
\* Am, F for degrees 1, 6.
C4_ChordNaming ==
    (DegreeToChordReturned /\ Len(arg_scale) = 7 /\ arg_degree \in 1..7) =>
        /\ ret.value =
             arg_scale[arg_degree]
                \o ExpectedSuffix(ExpectedQualities(arg_mode)[arg_degree])
        /\ (arg_scale = <<"C", "D", "E", "F", "G", "A", "B">>
              /\ arg_mode = "major" =>
                /\ (arg_degree = 1 => ret.value = "C")
                /\ (arg_degree = 2 => ret.value = "Dm")
                /\ (arg_degree = 5 => ret.value = "G")
                /\ (arg_degree = 6 => ret.value = "Am"))
        /\ (arg_scale = <<"A", "B", "C", "D", "E", "F", "G">>
              /\ arg_mode = "minor" =>
                /\ (arg_degree = 1 => ret.value = "Am")
                /\ (arg_degree = 6 => ret.value = "F"))

C4_Witness ==
    /\ DegreeToChordReturned
    /\ arg_scale = <<"C", "D", "E", "F", "G", "A", "B">>
    /\ arg_mode = "major"
    /\ arg_degree = 2
    /\ ret.value = "Dm"

ExpectedOutput ==
    << "Random Chord Progression Generator",
       "Key: " \o root \o " " \o mode,
       "Progression: " \o join(roman),
       "Chords: " \o join(chords),
       "Tip: Try 4 beats per chord." >>

C5_Safe ==
    /\ pc # "raised"
    /\ (pc = "chords" => degrees[Len(chords) + 1] \in 1..7)
    /\ Len(out) <= 5
    /\ \A k \in 1..Len(out) : out[k] = ExpectedOutput[k]
    /\ (pc = "done" => out = ExpectedOutput)

\* C5: in every run every degree handed to degree_to_chord is in 1..7, the
\* validation error never occurs, and the run completes having printed the
\* banner, the Key line, the Progression line, the Chords line and the Tip
\* line in this order.
C5_RunCompletes == []C5_Safe /\ <>(pc = "done")

C5_Witness ==
    /\ pc = "done"
    /\ Len(out) = 5
    /\ out[2] = "Key: F# minor"
    /\ out[5] = "Tip: Try 4 beats per chord."

\* C6: the template comes from the table of the mode the scale was built
\* with, and the chord list has one chord per degree of the template, the
\* i-th being degree_to_chord(scale, degrees[i], mode); C major with
\* I V vi IV renders C G Am F.
C6_ChordsFollowTemplate ==
    pc \in {"print", "done"} =>
        /\ scale = build_scale(root, mode)
        /\ <<roman, degrees>> \in
             (IF mode = "major" THEN random_choice(MAJOR_PROGRESSIONS)
              ELSE random_choice(MINOR_PROGRESSIONS))
        /\ Len(chords) = Len(degrees)
        /\ \A i \in 1..Len(chords) :
              /\ chords[i] = degree_to_chord(scale, degrees[i], mode).value
              /\ chords[i] =
                   scale[degrees[i]]
                      \o ExpectedSuffix(ExpectedQualities(mode)[degrees[i]])
        /\ (pc = "done" => out[4] = "Chords: " \o join(chords))
        /\ (root = "C" /\ mode = "major" /\ degrees = <<1, 5, 6, 4>>
              => chords = <<"C", "G", "Am", "F">>)

C6_Witness ==
    /\ pc = "done"
    /\ root = "C"
    /\ mode = "major"
    /\ roman = <<"I", "V", "vi", "IV">>
    /\ out[4] = "Chords: C G Am F"

\* C7: every template of both tables, hence every value pick_progression
\* returns, pairs a roman-numeral sequence and a degree sequence of the
\* same length.
C7_TemplateLengths ==
    /\ \A t \in random_choice(MAJOR_PROGRESSIONS)
                  \cup random_choice(MINOR_PROGRESSIONS) :
          Len(t[1]) = Len(t[2])
    /\ (PickProgressionReturned => Len(ret[1]) = Len(ret[2]))

C7_Witness ==
    /\ PickProgressionReturned
    /\ arg_mode = "minor"
    /\ ret[2] = <<1, 7, 6, 7>>

\* C8: both quality tables hold only maj, min and dim, so for a degree in
\* 1..7 the quality degree_to_chord hands to chord_name is one of the three
\* and chord_name does not take its fallback branch.
C8_FallbackUnreached ==
    /\ \A m \in {"major", "minor"} : \A i \in 1..7 :
          mode_qualities(m)[i] \in {"maj", "min", "dim"}
    /\ (DegreeToChordReturned /\ Len(arg_scale) = 7 /\ arg_degree \in 1..7 =>
          /\ ret.quality \in {"maj", "min", "dim"}
          /\ ~ret.fallback)

C8_Witness ==
    /\ DegreeToChordReturned
    /\ arg_mode = "minor"
    /\ arg_degree = 2
    /\ ret.quality = "dim"
    /\ ~ret.fallback

UpperNumerals == <<"I", "II", "III", "IV", "V", "VI", "VII">>

LowerNumerals == <<"i", "ii", "iii", "iv", "v", "vi", "vii">>

IsUpper(label) == \E d \in 1..7 : UpperNumerals[d] = label

IsLower(label) == \E d \in 1..7 : LowerNumerals[d] = label

\* the set of degrees a label denotes (one degree for a well-formed label)
NumeralDegrees(label) ==
    {d \in 1..7 : UpperNumerals[d] = label \/ LowerNumerals[d] = label}

\* C9: in the chosen template every roman numeral denotes the degree it is
\* paired with, is uppercase exactly when the mode's quality of that degree
\* is maj and lowercase exactly when it is min, and so matches the chord
\* printed for it.
C9_NumeralsMatchQualities ==
    pc \in {"chords", "print", "done"} =>
        /\ Len(roman) = Len(degrees)
        /\ \A i \in 1..Len(roman) :
              /\ NumeralDegrees(roman[i]) = {degrees[i]}
              /\ IsUpper(roman[i]) <=> mode_qualities(mode)[degrees[i]] = "maj"
              /\ IsLower(roman[i]) <=> mode_qualities(mode)[degrees[i]] = "min"
        /\ \A i \in 1..Len(chords) :
              chords[i] =
                 scale[degrees[i]] \o (IF IsUpper(roman[i]) THEN "" ELSE "m")

C9_Witness ==
    /\ pc = "done"
    /\ mode = "minor"
    /\ roman = <<"i", "iv", "v", "i">>
    /\ chords[3] = scale[5] \o "m"

\* C10: the 7 pitch classes build_scale returns are pairwise distinct.
C10_ScaleDistinct ==
    BuildScaleReturned =>
        \A i, j \in 1..Len(ret) : i # j => ret[i] # ret[j]

C10_Witness ==
    /\ BuildScaleReturned
    /\ arg_root = "G#"
    /\ arg_mode = "major"
    /\ Len(ret) = 7
    /\ ret[7] = "G"

====
